---- MODULE Spec2Model ----
(***************************************************************************)
(* Model of src/asahi/compiler/agx_opcodes.h.py: a Mako template that is   *)
(* rendered once from three inputs (opcodes, immediates, enums) and whose  *)
(* result is printed.  The template body runs top to bottom, appending to  *)
(* a render buffer; the buffer reaches standard output only when render()  *)
(* has returned.                                                           *)
(*                                                                         *)
(* Rendered text is kept as a sequence of items (one per emitted C         *)
(* declaration line).  An identifier is a sequence of fragments: the       *)
(* template's literal text as one string, an interpolated value character  *)
(* by character, so that str.upper() and str.replace() act on characters.  *)
(***************************************************************************)
EXTENDS Integers, Sequences, FiniteSets, TLC

VARIABLES opcodes, nimm, enums, pc, gi, buf, out, run, prev

vars == <<opcodes, nimm, enums, pc, gi, buf, out, run, prev>>

(* ---------------------------- bounds and pools -------------------------- *)

ImmWidth == 64

MaxSize == 2

MaxSmallImm == 1

MaxRuns == 2

OpNamePool == {<<"a">>, <<"A">>}

GroupNamePool == {<<"s">>, <<"t">>}

LabelPool == {<<"b">>, <<"a", ".", "b">>, <<"a", "_", "b">>}

KeyPool == {0, 2}

(* ------------------------- Python string methods ------------------------ *)

UpperChar(c) ==
  CASE c = "a" -> "A"
    [] c = "b" -> "B"
    [] c = "i" -> "I"
    [] c = "s" -> "S"
    [] c = "t" -> "T"
    [] OTHER -> c

Upper(s) == [i \in 1..Len(s) |-> UpperChar(s[i])]

ReplaceDot(s) == [i \in 1..Len(s) |-> IF s[i] = "." THEN "_" ELSE s[i]]

Normalize_nodot(v) == Upper(v)

Normalize(v) == Upper(ReplaceDot(v))

DigitChars == <<"0", "1", "2", "3", "4", "5", "6", "7", "8", "9">>

RECURSIVE Dec(_)
Dec(n) ==
  IF n < 10 THEN <<DigitChars[n + 1]>>
  ELSE Dec(n \div 10) \o <<DigitChars[(n % 10) + 1]>>

(* ------------------------------ C reading ------------------------------- *)

DigitVal(c) == CHOOSE d \in 0..9 : DigitChars[d + 1] = c

RECURSIVE ParseDec(_)
ParseDec(s) ==
  IF Len(s) = 0 THEN 0
  ELSE 10 * ParseDec(SubSeq(s, 1, Len(s) - 1)) + DigitVal(s[Len(s)])

(* ------------------------------- items ---------------------------------- *)

Item(sec, kind, tag, name, init, arg, text) ==
  [sec |-> sec, kind |-> kind, tag |-> tag, name |-> name,
   init |-> init, arg |-> arg, text |-> text]

Plain(sec, kind, tag) == Item(sec, kind, tag, <<>>, "none", <<>>, <<>>)

ScheduleClasses ==
  <<"INVALID", "NONE", "LOAD", "STORE", "ATOMIC", "COVERAGE", "PRELOAD",
    "BARRIER">>

ScheduleTag == <<"agx_schedule_class">>

OpcodeTag == <<"agx_opcode">>

ImmediateTag == <<"agx_immediate">>

NumOpcodes == <<"AGX_NUM_OPCODES">>

Prologue ==
  <<Plain("guard", "ifndef", <<"_AGX_OPCODES_">>),
    Plain("schedule_class", "enum", ScheduleTag)>>
  \o [i \in 1..Len(ScheduleClasses) |->
        Item("schedule_class", "enumerant", ScheduleTag,
             <<"AGX_SCHEDULE_CLASS_", ScheduleClasses[i]>>, "implicit",
             <<>>, <<>>)]

RECURSIVE OpcodeIter_set(_)
OpcodeIter_set(ops) ==
  IF Len(ops) = 0 THEN <<>>
  ELSE LET r == OpcodeIter_set(SubSeq(ops, 1, Len(ops) - 1))
       IN  IF \E i \in 1..Len(r) : r[i] = ops[Len(ops)]
           THEN r
           ELSE Append(r, ops[Len(ops)])

OpcodeIter(ops) == ops

OpcodeLine(op) ==
  Item("opcode_enum", "enumerant", OpcodeTag, <<"AGX_OPCODE_">> \o Upper(op),
       "implicit", <<>>, <<>>)

SentinelLine ==
  Item("opcode_enum", "enumerant", OpcodeTag, NumOpcodes, "implicit", <<>>,
       <<>>)

OpcodeEnum_sentinel_first(ops) ==
  <<Plain("opcode_enum", "enum", OpcodeTag), SentinelLine>>
  \o [i \in 1..Len(OpcodeIter(ops)) |-> OpcodeLine(OpcodeIter(ops)[i])]

OpcodeEnum(ops) ==
  <<Plain("opcode_enum", "enum", OpcodeTag)>>
  \o [i \in 1..Len(OpcodeIter(ops)) |-> OpcodeLine(OpcodeIter(ops)[i])]
  \o <<SentinelLine>>

EnumTag(name) == <<"agx_">> \o name

AsStrTag(name) == <<"agx_">> \o name \o <<"_as_str">>

EnumerantName(name, v) == <<"AGX_">> \o Upper(name) \o <<"_">> \o Normalize(v)

CaseText_norm(v) == Normalize(v)

CaseText(v) == v

DefaultLine_ret(name) ==
  Item("enum_group", "default", AsStrTag(name), <<>>, "return", <<>>,
       <<"?">>)

DefaultLine(name) ==
  Item("enum_group", "default", AsStrTag(name), <<>>, "unreachable", <<>>,
       <<"Nonexhaustive enum">>)

EnumGroup(g) ==
  <<Plain("enum_group", "enum", EnumTag(g.name))>>
  \o [i \in 1..Len(g.items) |->
        Item("enum_group", "enumerant", EnumTag(g.name),
             EnumerantName(g.name, g.items[i].v), "int", Dec(g.items[i].k),
             <<>>)]
  \o <<Plain("enum_group", "function", AsStrTag(g.name))>>
  \o [i \in 1..Len(g.items) |->
        Item("enum_group", "case", AsStrTag(g.name),
             EnumerantName(g.name, g.items[i].v), "return", <<>>,
             CaseText(g.items[i].v))]
  \o <<DefaultLine(g.name)>>

AssertOk_le(n) == n <= ImmWidth

AssertOk(n) == n < ImmWidth

ShiftOf_one(j) == j

ShiftOf(j) == j - 1

ImmediateEnum(imms) ==
  <<Plain("immediates", "enum", ImmediateTag)>>
  \o [j \in 1..Len(imms) |->
        Item("immediates", "enumerant", ImmediateTag,
             <<"AGX_IMMEDIATE_">> \o Upper(imms[j]), "shl", Dec(ShiftOf(j)),
             <<>>)]

Epilogue_extern_first ==
  <<Item("extern", "extern", <<"agx_opcodes_info">>, <<>>, "none",
         NumOpcodes, <<>>),
    Plain("structs", "struct", <<"agx_encoding">>),
    Plain("structs", "struct", <<"agx_opcode_info">>),
    Plain("guard_end", "endif", <<"_AGX_OPCODES_">>)>>

Epilogue ==
  <<Plain("structs", "struct", <<"agx_encoding">>),
    Plain("structs", "struct", <<"agx_opcode_info">>),
    Item("extern", "extern", <<"agx_opcodes_info">>, <<>>, "none",
         NumOpcodes, <<>>),
    Plain("guard_end", "endif", <<"_AGX_OPCODES_">>)>>

GroupAt_hashed(i) == enums[IF run % 2 = 0 THEN Len(enums) + 1 - i ELSE i]

GroupAt(i) == enums[i]

(* ------------------------------- inputs --------------------------------- *)

OpLists == UNION {[1..n -> OpNamePool] : n \in 0..MaxSize}

ImmCounts == (0..MaxSmallImm) \cup ((ImmWidth - 1)..(ImmWidth + 1))

ImmList(n) == [j \in 1..n |-> <<"i">> \o Dec(j - 1)]

(* The immediates list of the run: the state keeps its length, the names   *)
(* are i0, i1, ...                                                         *)
immediates == ImmList(nimm)

EntryLists ==
  {e \in UNION {[1..n -> [k : KeyPool, v : LabelPool]] : n \in 0..MaxSize} :
     \A i, j \in 1..Len(e) : i # j => e[i].k # e[j].k}

RECURSIVE TotalEntries(_)
TotalEntries(d) ==
  IF Len(d) = 0 THEN 0
  ELSE Len(d[Len(d)].items) + TotalEntries(SubSeq(d, 1, Len(d) - 1))

EnumDicts ==
  {d \in UNION {[1..n -> [name : GroupNamePool, items : EntryLists]] :
                  n \in 0..Cardinality(GroupNamePool)} :
     /\ \A i, j \in 1..Len(d) : i # j => d[i].name # d[j].name
     /\ TotalEntries(d) <= MaxSize}

(* A schema's size: its opcodes plus its enum entries. *)
SchemaSize(ops, d) == Len(ops) + TotalEntries(d)

NoPrev == [state |-> "none", out |-> <<>>]

(* ------------------------------ behaviour ------------------------------- *)

Init ==
  /\ opcodes \in OpLists
  /\ nimm \in ImmCounts
  /\ enums \in EnumDicts
  /\ SchemaSize(opcodes, enums) <= MaxSize
  /\ pc = "start"
  /\ gi = 1
  /\ buf = <<>>
  /\ out = <<>>
  /\ run = 1
  /\ prev = NoPrev

RenderPrologue ==
  /\ pc = "start"
  /\ buf' = Prologue
  /\ pc' = "opcodes"
  /\ UNCHANGED <<opcodes, nimm, enums, gi, out, run, prev>>

RenderOpcodeEnum ==
  /\ pc = "opcodes"
  /\ buf' = buf \o OpcodeEnum(opcodes)
  /\ gi' = 1
  /\ pc' = "groups"
  /\ UNCHANGED <<opcodes, nimm, enums, out, run, prev>>

RenderEnumGroup ==
  /\ pc = "groups"
  /\ gi <= Len(enums)
  /\ buf' = buf \o EnumGroup(GroupAt(gi))
  /\ gi' = gi + 1
  /\ UNCHANGED <<opcodes, nimm, enums, pc, out, run, prev>>

AssertImmediates_first ==
  /\ pc = "groups"
  /\ gi > Len(enums) \/ ~AssertOk(Len(immediates))
  /\ pc' = IF AssertOk(Len(immediates)) THEN "immediates" ELSE "failed"
  /\ UNCHANGED <<opcodes, nimm, enums, gi, buf, out, run, prev>>

AssertImmediates ==
  /\ pc = "groups"
  /\ gi > Len(enums)
  /\ pc' = IF AssertOk(Len(immediates)) THEN "immediates" ELSE "failed"
  /\ UNCHANGED <<opcodes, nimm, enums, gi, buf, out, run, prev>>

RenderImmediates ==
  /\ pc = "immediates"
  /\ buf' = buf \o ImmediateEnum(immediates)
  /\ pc' = "epilogue"
  /\ UNCHANGED <<opcodes, nimm, enums, gi, out, run, prev>>

RenderEpilogue ==
  /\ pc = "epilogue"
  /\ buf' = buf \o Epilogue
  /\ pc' = "print"
  /\ UNCHANGED <<opcodes, nimm, enums, gi, out, run, prev>>

PrintArtifact ==
  /\ pc = "print"
  /\ out' = buf
  /\ pc' = "done"
  /\ UNCHANGED <<opcodes, nimm, enums, gi, buf, run, prev>>

Rerun ==
  /\ pc \in {"done", "failed"}
  /\ run < MaxRuns
  /\ prev' = [state |-> pc, out |-> out]
  /\ run' = run + 1
  /\ pc' = "start"
  /\ gi' = 1
  /\ buf' = <<>>
  /\ out' = <<>>
  /\ UNCHANGED <<opcodes, nimm, enums>>

Next ==
  \/ RenderPrologue
  \/ RenderOpcodeEnum
  \/ RenderEnumGroup
  \/ AssertImmediates
  \/ RenderImmediates
  \/ RenderEpilogue
  \/ PrintArtifact
  \/ Rerun

Spec == Init /\ [][Next]_vars

TypeOK ==
  /\ pc \in {"start", "opcodes", "groups", "immediates", "epilogue", "print",
             "done", "failed"}
  /\ gi \in 1..(Len(enums) + 1)
  /\ run \in 1..MaxRuns

(* -------------------- reading the artifact as C text -------------------- *)

Lines(a, kind, tag) ==
  SelectSeq(a, LAMBDA it : it.kind = kind /\ it.tag = tag)

(* An enumerator with "= k" has value k; one without has the previous      *)
(* enumerator's value plus one, the first one 0.                           *)
RECURSIVE EnumValue(_, _)
EnumValue(es, i) ==
  IF es[i].init = "int" THEN ParseDec(es[i].arg)
  ELSE IF i = 1 THEN 0 ELSE EnumValue(es, i - 1) + 1

(* The values the enumeration `tag` gives to the enumerant `name`. *)
ValuesOf(a, tag, name) ==
  LET es == Lines(a, "enumerant", tag)
  IN  {EnumValue(es, i) : i \in {j \in 1..Len(es) : es[j].name = name}}

(* The set bits of (1ull << n), for n below the width of the type. *)
FlagBits(it) == {ParseDec(it.arg)}

Outcome(it) == [how |-> it.init, text |-> it.text]

(* What agx_<name>_as_str(x) does: the cases whose enumerant has value x,  *)
(* else the default branch.                                                *)
AsStr(a, name, x) ==
  LET cs  == Lines(a, "case", AsStrTag(name))
      ds  == Lines(a, "default", AsStrTag(name))
      hit == {i \in 1..Len(cs) : x \in ValuesOf(a, EnumTag(name), cs[i].name)}
  IN  IF hit # {} THEN {Outcome(cs[i]) : i \in hit}
      ELSE {Outcome(ds[i]) : i \in 1..Len(ds)}

Sections(a) == {a[i].sec : i \in 1..Len(a)}

Rank(order, sec) == CHOOSE p \in 1..Len(order) : order[p] = sec

(* Every item of section order[p] stands before every item of order[q],    *)
(* p < q: along the artifact the sections' ranks never decrease.           *)
InOrder(a, order) ==
  LET named == {order[p] : p \in 1..Len(order)}
      b     == SelectSeq(a, LAMBDA it : it.sec \in named)
  IN  \A i \in 1..(Len(b) - 1) :
        Rank(order, b[i].sec) <= Rank(order, b[i + 1].sec)

GroupTags(a) ==
  LET hs == SelectSeq(a, LAMBDA it : it.sec = "enum_group" /\ it.kind = "enum")
  IN  [i \in 1..Len(hs) |-> hs[i].tag]

Produced == pc = "done"

Failed == pc = "failed"

HasDuplicate(ops) == \E i, j \in 1..Len(ops) : i # j /\ ops[i] = ops[j]

(* Dots replaced by underscores, then upper-cased, character by character. *)
Canon(c) == UpperChar(IF c = "." THEN "_" ELSE c)

SameNormalized(v, w) ==
  /\ Len(v) = Len(w)
  /\ \A i \in 1..Len(v) : Canon(v[i]) = Canon(w[i])

Collides(g, i) ==
  \E j \in 1..Len(g.items) : j # i /\ SameNormalized(g.items[i].v, g.items[j].v)

HasCollision == \E n \in 1..Len(enums) : \E i \in 1..Len(enums[n].items) :
  Collides(enums[n], i)

(* ------------------------------- claims --------------------------------- *)

(* C1: with 64 or more immediate kinds a run never prints anything, never   *)
(* reaches the success state and its only terminal state is failure; with   *)
(* fewer than 64 the run never fails.                                       *)
C1_ImmediateBound ==
  /\ Len(immediates) >= 64 =>
       /\ out = <<>>
       /\ pc \notin {"immediates", "epilogue", "print", "done"}
  /\ Len(immediates) < 64 => ~Failed

C1_Witness == Failed /\ Len(immediates) = 64 /\ buf # <<>>

(* C2 as stated: an opcode list with a repeated name never yields an        *)
(* artifact.                                                                *)
C2_Original == HasDuplicate(opcodes) => ~Produced

(* C2 amended: a repeated opcode name does not fail the run; the run fails  *)
(* only on 64 or more immediate kinds, and the artifact's opcode            *)
(* enumeration lists the repeated name's enumerant once per occurrence.     *)
C2_DuplicateAccepted ==
  HasDuplicate(opcodes) =>
    /\ Failed => Len(immediates) >= 64
    /\ Produced =>
         LET es == Lines(out, "enumerant", OpcodeTag)
         IN  /\ Len(es) = Len(opcodes) + 1
             /\ \A i, j \in 1..Len(opcodes) :
                  opcodes[i] = opcodes[j] => es[i].name = es[j].name

C2_Witness == Produced /\ HasDuplicate(opcodes) /\ Len(opcodes) = 2

(* C3 as stated: a group with two labels equal after normalization never    *)
(* yields an artifact.                                                      *)
C3_Original == HasCollision => ~Produced

(* C3 amended: such a group does not fail the run; the run fails only on 64 *)
(* or more immediate kinds, and the artifact's enumeration for the group    *)
(* holds the two entries under one and the same enumerant name.             *)
C3_CollisionAccepted ==
  HasCollision =>
    /\ Failed => Len(immediates) >= 64
    /\ Produced =>
         \A n \in 1..Len(enums) :
           LET g  == enums[n]
               es == Lines(out, "enumerant", EnumTag(g.name))
           IN  /\ Len(es) = Len(g.items)
               /\ \A i, j \in 1..Len(g.items) :
                    SameNormalized(g.items[i].v, g.items[j].v)
                      => es[i].name = es[j].name

C3_Witness ==
  /\ Produced
  /\ \E n \in 1..Len(enums) :
       /\ Len(enums[n].items) = 2
       /\ enums[n].items[1].v = <<"a", ".", "b">>
       /\ enums[n].items[2].v = <<"a", "_", "b">>

RoundTrips(g, i) ==
  /\ ValuesOf(out, EnumTag(g.name),
              <<"AGX_">> \o Upper(g.name) \o <<"_">>
                \o [c \in 1..Len(g.items[i].v) |-> Canon(g.items[i].v[c])])
       = {g.items[i].k}
  /\ AsStr(out, g.name, g.items[i].k)
       = {[how |-> "return", text |-> g.items[i].v]}

(* C4 as stated: every declared (key, label) entry of every group round     *)
(* trips through the enumeration and the reflection function.               *)
C4_Original ==
  Produced =>
    \A n \in 1..Len(enums) : \A i \in 1..Len(enums[n].items) :
      RoundTrips(enums[n], i)

(* C4 amended: every declared (key, label) entry whose normalized label is  *)
(* shared with no other entry of its group has the value key under the      *)
(* enumerant group-name + normalized label, and the reflection function     *)
(* applied to it returns exactly the original label.                        *)
C4_RoundTrip ==
  Produced =>
    \A n \in 1..Len(enums) : \A i \in 1..Len(enums[n].items) :
      ~Collides(enums[n], i) => RoundTrips(enums[n], i)

C4_Witness ==
  /\ Produced
  /\ \E n \in 1..Len(enums) :
       /\ Len(enums[n].items) = 2
       /\ enums[n].items[1] = [k |-> 2, v |-> <<"a", ".", "b">>]
       /\ enums[n].items[2] = [k |-> 0, v |-> <<"b">>]

ProbeValues == KeyPool \cup {k + 1 : k \in KeyPool}

(* C5: the reflection function of a group has exactly one case per declared *)
(* entry, in entry order, and for every integer that is no declared key it  *)
(* ends in the unreachable branch and returns no label.                     *)
C5_Exhaustive ==
  Produced =>
    \A n \in 1..Len(enums) :
      LET g    == enums[n]
          cs   == Lines(out, "case", AsStrTag(g.name))
          keys == {g.items[i].k : i \in 1..Len(g.items)}
      IN  /\ Len(cs) = Len(g.items)
          /\ \A i \in 1..Len(cs) : cs[i].text = g.items[i].v
          /\ \A x \in ProbeValues \ keys :
               AsStr(out, g.name, x)
                 = {[how |-> "unreachable", text |-> <<"Nonexhaustive enum">>]}

C5_Witness ==
  /\ Produced
  /\ \E n \in 1..Len(enums) :
       /\ Len(enums[n].items) = 2
       /\ AsStr(out, enums[n].name, 1)
            = {[how |-> "unreachable", text |-> <<"Nonexhaustive enum">>]}

OpcodeListing ==
  LET es == Lines(out, "enumerant", OpcodeTag)
  IN  /\ Len(es) = Len(opcodes) + 1
      /\ \A i \in 1..Len(opcodes) :
           /\ es[i].name = <<"AGX_OPCODE_">> \o Upper(opcodes[i])
           /\ EnumValue(es, i) = i - 1
      /\ es[Len(es)].name = <<"AGX_NUM_OPCODES">>

SentinelValue ==
  LET es == Lines(out, "enumerant", OpcodeTag) IN EnumValue(es, Len(es))

(* C6 as stated: the sentinel's value is the number of distinct opcode      *)
(* names.                                                                   *)
C6_Original ==
  Produced =>
    /\ OpcodeListing
    /\ SentinelValue = Cardinality({opcodes[i] : i \in 1..Len(opcodes)})

(* C6 amended: one enumerant per input opcode, in input order with 0-based  *)
(* contiguous values, then the sentinel, whose value is the length of the   *)
(* input opcode list (repeated names counted each time).                    *)
C6_Sentinel ==
  Produced =>
    /\ OpcodeListing
    /\ SentinelValue = Len(opcodes)

C6_Witness ==
  /\ Produced
  /\ Len(opcodes) = 2
  /\ opcodes[1] = opcodes[2]
  /\ SentinelValue = 2

(* C7: the immediate kind at 0-based position i has the flag 2^i: distinct  *)
(* positions have distinct bits, exactly count bits are used, and every bit *)
(* is below bit 63.                                                         *)
C7_ImmediateBits ==
  Produced =>
    LET es == Lines(out, "enumerant", ImmediateTag)
    IN  /\ Len(es) = Len(immediates)
        /\ \A j \in 1..Len(es) :
             /\ es[j].name = <<"AGX_IMMEDIATE_">> \o Upper(immediates[j])
             /\ es[j].init = "shl"
             /\ FlagBits(es[j]) = {j - 1}
             /\ \A b \in FlagBits(es[j]) : b < 63
        /\ Cardinality({FlagBits(es[j]) : j \in 1..Len(es)}) = Len(es)
        /\ Cardinality(UNION {FlagBits(es[j]) : j \in 1..Len(es)})
             = Len(immediates)

C7_Witness ==
  /\ Produced
  /\ Len(immediates) = 63
  /\ FlagBits(Lines(out, "enumerant", ImmediateTag)[63]) = {62}

ClaimedOrder ==
  <<"guard", "schedule_class", "enum_group", "immediates", "structs",
    "opcode_enum", "extern">>

CodeOrder ==
  <<"guard", "schedule_class", "opcode_enum", "enum_group", "immediates",
    "structs", "extern">>

SectionsComplete ==
  /\ {"guard", "schedule_class", "opcode_enum", "immediates", "structs",
      "extern"} \subseteq Sections(out)
  /\ GroupTags(out) = [n \in 1..Len(enums) |-> <<"agx_">> \o enums[n].name]
  /\ Lines(out, "extern", <<"agx_opcodes_info">>)[1].arg = <<"AGX_NUM_OPCODES">>

(* C8 as stated: the opcode enumeration stands after the record definitions *)
(* and before the table declaration.                                        *)
C8_Original == Produced => SectionsComplete /\ InOrder(out, ClaimedOrder)

(* C8 amended: header guard, ScheduleClass enumeration, opcode enumeration, *)
(* per-group renderings in declaration order, immediate flags, record       *)
(* definitions, table declaration sized by the sentinel.                    *)
C8_SectionOrder == Produced => SectionsComplete /\ InOrder(out, CodeOrder)

C8_Witness == Produced /\ Len(enums) = 2 /\ Len(opcodes) = 2

C10_Original == Failed => buf = <<>>

(* C10 amended: the immediate-count check runs after the header guard, the  *)
(* ScheduleClass enumeration, the opcode enumeration and every enum group   *)
(* have been rendered into the buffer, and before the immediate flags, the  *)
(* record definitions and the table declaration; a run that fails has       *)
(* printed nothing.                                                         *)
C10_AssertPosition ==
  Failed =>
    /\ out = <<>>
    /\ Sections(buf) =
         {"guard", "schedule_class", "opcode_enum"}
           \cup (IF Len(enums) > 0 THEN {"enum_group"} ELSE {})
    /\ Len(GroupTags(buf)) = Len(enums)

C10_Witness == Failed /\ Len(enums) = 2 /\ Len(GroupTags(buf)) = 2
====
